---- MODULE Spec2Model ----
(***************************************************************************)
(* A model of app.py, the "Advanced Stock Analyzer" Streamlit script:      *)
(* one pass of the script (widgets, fetch, render) and the indicator       *)
(* calculations it performs on the fetched table.                          *)
(*                                                                         *)
(* Numbers are the float64 values of the script with exact rational        *)
(* arithmetic in place of rounding: a finite value is a normalised         *)
(* fraction, and NaN and the two infinities are kept with the IEEE-754     *)
(* rules the script relies on (x/0, 0/0, 100/inf).  The sign of zero is    *)
(* not kept.  Rounding error of the rolling sums is outside the model.     *)
(***************************************************************************)
EXTENDS Integers, Sequences, FiniteSets, TLC

VARIABLES
    pc,                  \* where the pass of the script stands
    symbol,              \* sidebar: the selected stock
    interval,            \* sidebar: the chart interval
    selected_indicator,  \* sidebar: the selected technical indicator
    response,            \* what the price request of this pass came back with
    data,                \* the table `data` of the script
    fetched,             \* the table as get_stock_data returned it
    ratios,              \* the dict `ratios` of the script
    calls,               \* the fetch calls of this pass in order, and which raised
    exc,                 \* the exception raised in the try block, if any
    shown,               \* the st.error / st.info messages on the page
    rendered,            \* the charts and tiles on the page
    window,              \* the window calculate_rsi is called with
    out                  \* what the last indicator function returned

vars == <<pc, symbol, interval, selected_indicator, response, data, fetched,
          ratios, calls, exc, shown, rendered, window, out>>

(***************************************************************************)
(* Bounds of the model.                                                    *)
(***************************************************************************)
MaxPrice == 3
MaxRsiLen == 5
MaxRsiWindow == 3
MaxMacdLen == 2
MaxMacdPrice == 10
MaxBarPrice == 2
MaxVolume == 2
MaxVwapLen == 2
MaxBollTail == 4
MaxEngineLen == 2
MaxBars == 2
MaxDay == 2

(***************************************************************************)
(* float64 values.                                                         *)
(***************************************************************************)
Abs(x) == IF x < 0 THEN -x ELSE x

Sgn(x) == IF x < 0 THEN -1 ELSE IF x > 0 THEN 1 ELSE 0

RECURSIVE GCD(_, _)
GCD(a, b) == IF b = 0 THEN a ELSE GCD(b, a % b)

NaN == [k |-> "nan", n |-> 0, d |-> 1]

Inf(s) == [k |-> "inf", n |-> s, d |-> 1]

Num(n, d) ==
    LET s == IF d < 0 THEN -1 ELSE 1
        g == GCD(Abs(n), Abs(d))
    IN  [k |-> "num", n |-> (s * n) \div g, d |-> (s * d) \div g]

F(i) == Num(i, 1)

IsNaN(a) == a.k = "nan"

IsNum(a) == a.k = "num"

FNeg(a) == IF a.k = "nan" THEN NaN ELSE [a EXCEPT !.n = -a.n]

FAdd(a, b) ==
    IF a.k = "nan" \/ b.k = "nan" THEN NaN
    ELSE IF a.k = "inf" /\ b.k = "inf" THEN (IF a.n = b.n THEN a ELSE NaN)
    ELSE IF a.k = "inf" THEN a
    ELSE IF b.k = "inf" THEN b
    ELSE LET l == (a.d \div GCD(a.d, b.d)) * b.d
         IN  Num(a.n * (l \div a.d) + b.n * (l \div b.d), l)

FSub(a, b) == FAdd(a, FNeg(b))

FMul(a, b) ==
    IF a.k = "nan" \/ b.k = "nan" THEN NaN
    ELSE IF a.k = "inf" \/ b.k = "inf"
         THEN (IF a.n = 0 \/ b.n = 0 THEN NaN ELSE Inf(Sgn(a.n) * Sgn(b.n)))
    ELSE LET g1 == GCD(Abs(a.n), b.d)
             g2 == GCD(Abs(b.n), a.d)
         IN  Num((a.n \div g1) * (b.n \div g2), (a.d \div g2) * (b.d \div g1))

FDiv(a, b) ==
    IF a.k = "nan" \/ b.k = "nan" THEN NaN
    ELSE IF a.k = "inf" /\ b.k = "inf" THEN NaN
    ELSE IF a.k = "inf" THEN Inf(a.n * (IF b.n < 0 THEN -1 ELSE 1))
    ELSE IF b.k = "inf" THEN F(0)
    ELSE IF b.n = 0 THEN (IF a.n = 0 THEN NaN ELSE Inf(Sgn(a.n)))
    ELSE FMul(a, Num(b.d, b.n))

\* a < b and a > b of float64: false as soon as one side is NaN
FLt(a, b) ==
    /\ a.k # "nan" /\ b.k # "nan"
    /\ LET e == FSub(a, b)
       IN  IF e.k = "nan" THEN FALSE ELSE e.n < 0

FGt(a, b) == FLt(b, a)

FLe(a, b) == a.k # "nan" /\ b.k # "nan" /\ ~FLt(b, a)

(***************************************************************************)
(* The pandas Series operations the script uses, on sequences of float64.  *)
(***************************************************************************)
\* the differences alone, one fewer than the values (numpy.diff)
DiffShort(s) == [i \in 1..(Len(s) - 1) |-> FSub(s[i + 1], s[i])]

\* Series.diff(): the first position has no predecessor and is NaN
Diff(s) == [i \in 1..Len(s) |-> IF i = 1 THEN NaN ELSE FSub(s[i], s[i - 1])]

\* delta.where(delta > 0, 0): keep where the condition holds, else 0
WherePos(s) == [i \in 1..Len(s) |-> IF FGt(s[i], F(0)) THEN s[i] ELSE F(0)]

\* delta.where(delta < 0, 0)
WhereNeg(s) == [i \in 1..Len(s) |-> IF FLt(s[i], F(0)) THEN s[i] ELSE F(0)]

SNeg(s) == [i \in 1..Len(s) |-> FNeg(s[i])]

\* the sum of s[lo..hi]; exact, so the order of the additions is immaterial
\* and the range is halved to keep the evaluation shallow
RECURSIVE SumSeq(_, _, _)
SumSeq(s, lo, hi) ==
    IF lo > hi THEN F(0)
    ELSE IF lo = hi THEN s[lo]
    ELSE LET mid == (lo + hi) \div 2
         IN  FAdd(SumSeq(s, lo, mid), SumSeq(s, mid + 1, hi))

\* Series.rolling(w).mean(): min_periods = w, so a position with fewer than
\* w observations (NaN is no observation) is NaN
RollingMean(s, w) ==
    [i \in 1..Len(s) |->
        IF i < w \/ (\E j \in (i - w + 1)..i : IsNaN(s[j])) THEN NaN
        ELSE FDiv(SumSeq(s, i - w + 1, i), F(w))]

SDivS(a, b) == [i \in 1..Len(a) |-> FDiv(a[i], b[i])]

SSubS(a, b) == [i \in 1..Len(a) |-> FSub(a[i], b[i])]

(***************************************************************************)
(* calculate_rsi                                                           *)
(***************************************************************************)
Col(df, c) == df.cols[c]

RsiGain(df, w) == RollingMean(WherePos(Diff(Col(df, "close"))), w)

RsiLossNoNegation(df, w) == RollingMean(WhereNeg(Diff(Col(df, "close"))), w)

RsiLoss(df, w) == RollingMean(SNeg(WhereNeg(Diff(Col(df, "close")))), w)

calculate_rsi_swapped(df, w) ==
    LET rs == SDivS(RsiLoss(df, w), RsiGain(df, w))
    IN  [i \in 1..Len(rs) |->
            FSub(F(100), FDiv(F(100), FAdd(F(1), rs[i])))]

calculate_rsi(df, w) ==
    LET rs == SDivS(RsiGain(df, w), RsiLoss(df, w))
    IN  [i \in 1..Len(rs) |->
            FSub(F(100), FDiv(F(100), FAdd(F(1), rs[i])))]

(***************************************************************************)
(* The table get_stock_data returns: a time index and float columns.       *)
(***************************************************************************)
PriceColumns == {"open", "high", "low", "close", "volume"}

\* a table of the bars b (records of integers), in the order given
Frame(b) ==
    [index |-> [i \in 1..Len(b) |-> b[i].ts],
     cols  |-> [c \in PriceColumns |-> [i \in 1..Len(b) |-> F(b[i][c])]]]

FlatBar(t, c) ==
    [ts |-> t, open |-> c, high |-> c, low |-> c, close |-> c, volume |-> 1]

\* the table whose closes are the sequence cs, one bar a day
FlatFrame(cs) == Frame([i \in 1..Len(cs) |-> FlatBar(i, cs[i])])

SeqsUpTo(S, n) == UNION {[1..k -> S] : k \in 0..n}

NRows(df) == Len(df.index)

(***************************************************************************)
(* The state outside a pass of the script, for the specifications that     *)
(* apply one indicator function to a table.                                *)
(***************************************************************************)
appVars == <<symbol, interval, selected_indicator, response, fetched,
             ratios, calls, exc, shown, rendered>>

NoFrame == [index |-> <<>>, cols |-> <<>>]

NoExc == [type |-> "", msg |-> ""]

NoPass ==
    /\ symbol = "AAPL"
    /\ interval = "daily"
    /\ selected_indicator = "MACD"
    /\ response = [kind |-> "none"]
    /\ fetched = NoFrame
    /\ ratios = <<>>
    /\ calls = <<>>
    /\ exc = NoExc
    /\ shown = <<>>
    /\ rendered = {}

(***************************************************************************)
(* SpecRSI: calculate_rsi applied to a table, for every window.            *)
(***************************************************************************)
InitRSI ==
    /\ NoPass
    /\ pc = "ready"
    /\ data \in {FlatFrame(cs) : cs \in SeqsUpTo(1..MaxPrice, MaxRsiLen)}
    /\ window \in 1..MaxRsiWindow
    /\ out = <<>>

CallRSI ==
    /\ pc = "ready"
    /\ out' = [RSI |-> calculate_rsi(data, window)]
    /\ pc' = "done"
    /\ UNCHANGED <<appVars, data, window>>

NextRSI == CallRSI

SpecRSI == InitRSI /\ [][NextRSI]_vars

\* the close-to-close difference that ends at row i (i >= 2), as an integer
\* sign: computed from the input table, not from the function's own deltas
Rises(df, i) == FGt(Col(df, "close")[i], Col(df, "close")[i - 1])

Falls(df, i) == FLt(Col(df, "close")[i], Col(df, "close")[i - 1])

\* the rows at which a full trailing window of w differences is available
FullWindowRows(df, w) == (w + 1)..NRows(df)

WindowOf(i, w) == (i - w + 1)..i

\* C1 (as stated): at every row with a full trailing window of differences,
\* all differences non-negative gives 100 and all non-positive gives 0.
C1_AsStated ==
    pc = "done" =>
        \A i \in FullWindowRows(data, window) :
            /\ (\A j \in WindowOf(i, window) : ~Falls(data, j)) => out.RSI[i] = F(100)
            /\ (\A j \in WindowOf(i, window) : ~Rises(data, j)) => out.RSI[i] = F(0)

\* C1 (amended): at every row with a full trailing window of differences, no
\* fall and at least one rise gives 100, no rise and at least one fall gives
\* 0, and a window of constant prices (average gain and loss both 0) gives
\* NaN, not 100.
C1_Saturation ==
    pc = "done" =>
        \A i \in FullWindowRows(data, window) :
            LET W == WindowOf(i, window)
                rise == \E j \in W : Rises(data, j)
                fall == \E j \in W : Falls(data, j)
            IN  /\ (rise /\ ~fall) => out.RSI[i] = F(100)
                /\ (fall /\ ~rise) => out.RSI[i] = F(0)
                /\ (~rise /\ ~fall) => IsNaN(out.RSI[i])

\* the three cases of C1 in one output: a rising, a falling and a flat window
C1_Witness ==
    /\ pc = "done"
    /\ \E i, j, k \in FullWindowRows(data, window) :
          /\ out.RSI[i] = F(100)
          /\ out.RSI[j] = F(0)
          /\ IsNaN(out.RSI[k])
          /\ \A m \in WindowOf(k, window) : ~Rises(data, m) /\ ~Falls(data, m)

\* C2: no position of calculate_rsi's output holds a value below 0 or above
\* 100 (a position is NaN, or a number in [0, 100]).
C2_Range ==
    pc = "done" =>
        \A i \in 1..Len(out.RSI) :
            /\ ~FLt(out.RSI[i], F(0))
            /\ ~FGt(out.RSI[i], F(100))
            /\ (IsNaN(out.RSI[i]) \/ IsNum(out.RSI[i]))

\* an output strictly inside the interval: gains and losses in one window
C2_Witness ==
    /\ pc = "done"
    /\ \E i \in 1..Len(out.RSI) :
          FGt(out.RSI[i], F(0)) /\ FLt(out.RSI[i], F(100))

(***************************************************************************)
(* calculate_macd                                                          *)
(***************************************************************************)
MacdFast == 12
MacdSlow == 26
MacdSignal == 9

Alpha(span) == Num(2, span + 1)

\* Series.ewm(span, adjust=True).mean(): the weighted mean of all samples so
\* far with weights (1-a)^k (the pandas default)
RECURSIVE EwmWeighted(_, _, _, _)
EwmWeighted(s, a, i, w) ==
    IF i = 0 THEN [num |-> F(0), den |-> F(0)]
    ELSE LET r == EwmWeighted(s, a, i - 1, FMul(w, FSub(F(1), a)))
         IN  [num |-> FAdd(r.num, FMul(w, s[i])), den |-> FAdd(r.den, w)]

EwmAdjusted(s, span) ==
    [i \in 1..Len(s) |->
        LET r == EwmWeighted(s, Alpha(span), i, F(1)) IN FDiv(r.num, r.den)]

\* Series.ewm(span, adjust=False).mean(): y[0] = x[0],
\* y[t] = (1-a) y[t-1] + a x[t]
RECURSIVE EwmAt(_, _, _)
EwmAt(s, a, i) ==
    IF i = 1 THEN s[1]
    ELSE FAdd(FMul(FSub(F(1), a), EwmAt(s, a, i - 1)), FMul(a, s[i]))

Ewm(s, span) == [i \in 1..Len(s) |-> EwmAt(s, Alpha(span), i)]

calculate_macd(df, fast, slow, signal) ==
    LET ema_fast == Ewm(Col(df, "close"), fast)
        ema_slow == Ewm(Col(df, "close"), slow)
        macd == SSubS(ema_fast, ema_slow)
    IN  [macd |-> macd, signal |-> Ewm(macd, signal)]

(***************************************************************************)
(* calculate_vwap                                                          *)
(***************************************************************************)
CumSum(s) == [i \in 1..Len(s) |-> SumSeq(s, 1, i)]

SMulS(a, b) == [i \in 1..Len(a) |-> FMul(a[i], b[i])]

TypicalPrice(df) ==
    [i \in 1..NRows(df) |->
        FDiv(FAdd(FAdd(Col(df, "high")[i], Col(df, "low")[i]), Col(df, "close")[i]),
             F(3))]

calculate_vwap_per_bar(df) ==
    SDivS(CumSum(SMulS(TypicalPrice(df), Col(df, "volume"))), Col(df, "volume"))

calculate_vwap(df) ==
    SDivS(CumSum(SMulS(TypicalPrice(df), Col(df, "volume"))),
          CumSum(Col(df, "volume")))

(***************************************************************************)
(* Bollinger Bands.  The standard deviation is a square root, kept exact:  *)
(* a band value is q + c * sqrt(r) with q, c, r float64 values as above    *)
(* (r >= 0), so that order and equality of band values are decided         *)
(* without rounding.                                                       *)
(***************************************************************************)
BollWindow == 20
BollK == 2

SNaN == [q |-> NaN, c |-> F(0), r |-> F(0)]

Surd(q, c, r) ==
    IF IsNaN(q) \/ IsNaN(c) \/ IsNaN(r) THEN SNaN
    ELSE IF c.n = 0 \/ r.n = 0 THEN [q |-> q, c |-> F(0), r |-> F(0)]
    ELSE [q |-> q, c |-> c, r |-> r]

Lift(f) == Surd(f, F(0), F(0))

SIsNaN(x) == IsNaN(x.q)

SqrtS(v) == Surd(F(0), F(1), v)

SScale(k, x) == Surd(FMul(k, x.q), FMul(k, x.c), x.r)

\* x + y, for operands with at most one radicand between them (the script
\* only adds a moving average and a multiple of one standard deviation)
SAdd(x, y) ==
    CASE SIsNaN(x) \/ SIsNaN(y) -> SNaN
      [] x.c.n = 0 -> Surd(FAdd(x.q, y.q), y.c, y.r)
      [] y.c.n = 0 -> Surd(FAdd(x.q, y.q), x.c, x.r)
      [] x.r = y.r -> Surd(FAdd(x.q, y.q), FAdd(x.c, y.c), x.r)

SSub(x, y) == SAdd(x, SScale(F(-1), y))

\* the sign of q + c * sqrt(r), for a value that is not NaN
SSign(x) ==
    IF x.c.n = 0 THEN Sgn(x.q.n)
    ELSE IF x.q.n = 0 THEN Sgn(x.c.n)
    ELSE IF Sgn(x.q.n) = Sgn(x.c.n) THEN Sgn(x.q.n)
    ELSE LET e == FSub(FMul(x.q, x.q), FMul(FMul(x.c, x.c), x.r))
         IN  IF e.n > 0 THEN Sgn(x.q.n) ELSE IF e.n < 0 THEN Sgn(x.c.n) ELSE 0

\* x >= y and x = y of band values: false as soon as one side is NaN
SGe(x, y) == ~SIsNaN(x) /\ ~SIsNaN(y) /\ SSign(SSub(x, y)) >= 0

SEq(x, y) == ~SIsNaN(x) /\ ~SIsNaN(y) /\ SSign(SSub(x, y)) = 0

\* the sample variance (ddof = 1) of s[lo..hi]
SampleVar(s, lo, hi) ==
    LET m == FDiv(SumSeq(s, lo, hi), F(hi - lo + 1))
        sq == [j \in lo..hi |-> FMul(FSub(s[j], m), FSub(s[j], m))]
    IN  FDiv(SumSeq(sq, lo, hi), F(hi - lo))

\* Series.rolling(w).std(): the sample standard deviation (ddof = 1) of the
\* trailing w values, NaN with fewer than w observations
RollingStd(s, w) ==
    [i \in 1..Len(s) |->
        IF i < w \/ (\E j \in (i - w + 1)..i : IsNaN(s[j])) THEN SNaN
        ELSE SqrtS(SampleVar(s, i - w + 1, i))]

BollMiddle(df) == RollingMean(Col(df, "close"), BollWindow)

BollUpper(df) ==
    LET ma == BollMiddle(df)
        sd == RollingStd(Col(df, "close"), BollWindow)
    IN  [i \in 1..Len(ma) |-> SAdd(Lift(ma[i]), SScale(F(BollK), sd[i]))]

BollLowerAdded(df) == BollUpper(df)

BollLower(df) ==
    LET ma == BollMiddle(df)
        sd == RollingStd(Col(df, "close"), BollWindow)
    IN  [i \in 1..Len(ma) |-> SSub(Lift(ma[i]), SScale(F(BollK), sd[i]))]

\* data[name] = vals: the column is added, or replaced if it exists
SetColumn(df, name, vals) == [df EXCEPT !.cols = (name :> vals) @@ df.cols]

\* the Bollinger Bands branch of the script: three columns are stored in data
BollingerBranch(df) ==
    LET d1 == SetColumn(df, "MA20", BollMiddle(df))
        d2 == SetColumn(d1, "Upper", BollUpper(d1))
    IN  SetColumn(d2, "Lower", BollLower(d2))

(***************************************************************************)
(* SpecMACD: calculate_macd with its default spans applied to a table.     *)
(***************************************************************************)
InitMACD ==
    /\ NoPass
    /\ pc = "ready"
    /\ data \in {FlatFrame(cs) : cs \in SeqsUpTo(1..MaxMacdPrice, MaxMacdLen)}
    /\ window = 0
    /\ out = <<>>

CallMACD ==
    /\ pc = "ready"
    /\ out' = calculate_macd(data, MacdFast, MacdSlow, MacdSignal)
    /\ pc' = "done"
    /\ UNCHANGED <<appVars, data, window>>

NextMACD == CallMACD

SpecMACD == InitMACD /\ [][NextMACD]_vars

RECURSIVE FPow(_, _)
FPow(a, k) == IF k = 0 THEN F(1) ELSE FMul(a, FPow(a, k - 1))

\* the EMA written out: (1-a)^(i-1) x[1] + sum over j in 2..i of a (1-a)^(i-j) x[j]
RECURSIVE EmaTerms(_, _, _, _)
EmaTerms(x, a, i, j) ==
    IF j = 1 THEN FMul(FPow(FSub(F(1), a), i - 1), x[1])
    ELSE FAdd(EmaTerms(x, a, i, j - 1),
              FMul(FMul(a, FPow(FSub(F(1), a), i - j)), x[j]))

EmaWrittenOut(x, span, i) == EmaTerms(x, Num(2, span + 1), i, i)

\* C5: on a non-empty series both EMAs start at close[0] and follow
\* ema[i] = a close[i] + (1-a) ema[i-1] with a = 2/(span+1), so macd[0] = 0;
\* the signal line is the same seeded EMA of the macd series; no position of
\* either output is undefined.
C5_Macd ==
    (pc = "done" /\ NRows(data) >= 1) =>
        LET close == Col(data, "close")
            a9 == Num(2, MacdSignal + 1)
        IN  /\ out.macd[1] = F(0)
            /\ out.signal[1] = out.macd[1]
            /\ \A i \in 1..NRows(data) :
                  /\ IsNum(out.macd[i]) /\ IsNum(out.signal[i])
                  /\ out.macd[i] = FSub(EmaWrittenOut(close, MacdFast, i),
                                        EmaWrittenOut(close, MacdSlow, i))
            /\ \A i \in 2..NRows(data) :
                  out.signal[i] = FAdd(FMul(a9, out.macd[i]),
                                       FMul(FSub(F(1), a9), out.signal[i - 1]))

\* a series whose close moves, so that the recurrence has acted
C5_Witness ==
    /\ pc = "done"
    /\ NRows(data) >= 2
    /\ out.macd[1] = F(0)
    /\ \E i \in 2..NRows(data) : out.macd[i] # F(0) /\ out.signal[i] # out.macd[i]

(***************************************************************************)
(* SpecVWAP: calculate_vwap applied to a table of well-formed bars.        *)
(***************************************************************************)
\* bars with low <= close <= high and a non-negative volume (open = close)
Bars ==
    {[ts |-> 0, open |-> c, high |-> h, low |-> l, close |-> c, volume |-> v] :
        <<h, l, c, v>> \in
            {q \in (1..MaxBarPrice) \X (1..MaxBarPrice) \X (1..MaxBarPrice)
                    \X (0..MaxVolume) : q[2] <= q[3] /\ q[3] <= q[1]}}

\* a table of the bars b with timestamps 1, 2, ...
DatedFrame(b) == Frame([i \in 1..Len(b) |-> [b[i] EXCEPT !.ts = i]])

InitVWAP ==
    /\ NoPass
    /\ pc = "ready"
    /\ data \in {DatedFrame(b) : b \in SeqsUpTo(Bars, MaxVwapLen)}
    /\ window = 0
    /\ out = <<>>

CallVWAP ==
    /\ pc = "ready"
    /\ out' = [vwap |-> calculate_vwap(data)]
    /\ pc' = "done"
    /\ UNCHANGED <<appVars, data, window>>

NextVWAP == CallVWAP

SpecVWAP == InitVWAP /\ [][NextVWAP]_vars

\* three times the typical price of row j, from the input table
Tp3(df, j) == FAdd(FAdd(Col(df, "high")[j], Col(df, "low")[j]), Col(df, "close")[j])

VolumeTo(df, i) == SumSeq(Col(df, "volume"), 1, i)

\* C3: with non-negative volumes, at every row where the cumulative volume is
\* positive the VWAP lies between the least and the greatest typical price of
\* the rows so far, and it is the average over all rows from the first (no
\* window, no reset): vwap[i] * sum(volume[0..i]) = sum(tp * volume [0..i]).
C3_VwapBounded ==
    pc = "done" =>
        \A i \in 1..NRows(data) :
            FGt(VolumeTo(data, i), F(0)) =>
                /\ \E j \in 1..i : FLe(Tp3(data, j), FMul(F(3), out.vwap[i]))
                /\ \E j \in 1..i : FLe(FMul(F(3), out.vwap[i]), Tp3(data, j))
                /\ FMul(F(3), FMul(out.vwap[i], VolumeTo(data, i)))
                     = SumSeq([j \in 1..i |-> FMul(Tp3(data, j), Col(data, "volume")[j])],
                              1, i)

\* a VWAP strictly between the typical prices of two rows traded with
\* different volumes
C3_Witness ==
    /\ pc = "done"
    /\ \E i \in 2..NRows(data) :
          /\ Col(data, "volume")[i] # Col(data, "volume")[i - 1]
          /\ FGt(Col(data, "volume")[i], F(0))
          /\ FGt(Col(data, "volume")[i - 1], F(0))
          /\ \E j, k \in 1..i :
                /\ FLt(Tp3(data, j), FMul(F(3), out.vwap[i]))
                /\ FLt(FMul(F(3), out.vwap[i]), Tp3(data, k))

(***************************************************************************)
(* SpecBoll: the Bollinger Bands branch applied to a table.                *)
(***************************************************************************)
\* closes that stay at one price and then move freely for the last rows
BollCloses ==
    {[i \in 1..(BollWindow - 2) |-> b] \o t :
        b \in 1..MaxPrice, t \in SeqsUpTo(1..MaxPrice, MaxBollTail)}

InitBoll ==
    /\ NoPass
    /\ pc = "ready"
    /\ data \in {FlatFrame(cs) : cs \in BollCloses}
    /\ window = 0
    /\ out = <<>>

CallBollinger ==
    /\ pc = "ready"
    /\ data' = BollingerBranch(data)
    /\ pc' = "done"
    /\ UNCHANGED <<appVars, window, out>>

NextBoll == CallBollinger

SpecBoll == InitBoll /\ [][NextBoll]_vars

ConstantWindow(df, i) ==
    \A j \in (i - BollWindow + 1)..i : Col(df, "close")[j] = Col(df, "close")[i]

\* C4: at every row where the bands are defined (a full window of 20 closes),
\* upper >= middle >= lower, upper = middle or middle = lower only when the
\* 20 closes of the window are all equal, and upper - middle = middle - lower.
C4_Bands ==
    pc = "done" =>
        \A i \in BollWindow..NRows(data) :
            LET U == Col(data, "Upper")[i]
                M == Lift(Col(data, "MA20")[i])
                L == Col(data, "Lower")[i]
            IN  /\ SGe(U, M)
                /\ SGe(M, L)
                /\ (SEq(U, M) \/ SEq(M, L)) => ConstantWindow(data, i)
                /\ SEq(SSub(U, M), SSub(M, L))

\* one table with a constant window (the bands meet) and a window that
\* varies (the bands are apart)
C4_Witness ==
    /\ pc = "done"
    /\ \E i, j \in BollWindow..NRows(data) :
          /\ ConstantWindow(data, i)
          /\ SEq(Col(data, "Upper")[i], Col(data, "Lower")[i])
          /\ ~ConstantWindow(data, j)
          /\ SSign(SSub(Col(data, "Upper")[j], Col(data, "Lower")[j])) > 0

(***************************************************************************)
(* Configuration and the replies of the Alpha Vantage API.                 *)
(***************************************************************************)
NASDAQ_SYMBOLS == {"AAPL", "MSFT", "AMZN", "GOOGL", "TSLA", "META", "NVDA"}

INDICATORS == {"MACD", "RSI (14-day)", "VWAP", "Bollinger Bands"}

Intervals == {"daily", "weekly", "monthly"}

RsiWindow == 14

\* a JSON object is a function from its keys; d.get(key, default)
Get(d, key, default) == IF key \in DOMAIN d THEN d[key] ELSE default

\* the keys of a time series are dates "YYYY-MM-DD", kept as <<Y, M, D>>
DateKeys == {<<2023, 12, 31>>} \cup {<<2024, 1, d>> : d \in 1..MaxDay}

\* a number in the reply is a string of decimal digits
PriceStrings == {<<7>>, <<1, 0>>}

RawBar(p) ==
    [c \in {"1. open", "2. high", "3. low", "4. close", "5. volume"} |->
        IF c = "5. volume" THEN <<5, 0>> ELSE p]

\* a time series object: distinct date keys, in the order the reply lists them
TimeSeriesObjects ==
    {ts \in SeqsUpTo(DateKeys \X {RawBar(p) : p \in PriceStrings}, MaxBars) :
        \A i, j \in 1..Len(ts) : i # j => ts[i][1] # ts[j][1]}

ApiErrorTexts == {"Invalid API call."}

ApiNoteTexts == {"Thank you for using Alpha Vantage!"}

SeriesKeys == {"Time Series (Daily)", "Weekly Time Series", "Monthly Time Series"}

\* the JSON objects a price request is answered with: any of an error
\* message, a note and one time series under one of the three keys
PriceBodies ==
    {e @@ n @@ t :
        e \in {<<>>} \cup {("Error Message" :> x) : x \in ApiErrorTexts},
        n \in {<<>>} \cup {("Note" :> x) : x \in ApiNoteTexts},
        t \in {<<>>} \cup {(k :> ts) : k \in SeriesKeys, ts \in TimeSeriesObjects}}

\* what requests.get(url) and response.json() raise when the request fails
NetworkFailures ==
    {[type |-> "ConnectionError", msg |-> "Max retries exceeded with url"],
     [type |-> "JSONDecodeError", msg |-> "Expecting value: line 1 column 1 (char 0)"]}

PriceReplies ==
    {[kind |-> "failed", error |-> f, body |-> <<>>] : f \in NetworkFailures}
    \cup {[kind |-> "json", error |-> NoExc, body |-> b] : b \in PriceBodies}

(***************************************************************************)
(* get_stock_data                                                          *)
(***************************************************************************)
\* pd.to_datetime of a date key: the days since a fixed origin
RECURSIVE DaysBeforeMonth(_, _)
DaysBeforeMonth(y, m) ==
    IF m = 1 THEN 0
    ELSE DaysBeforeMonth(y, m - 1)
         + (IF m - 1 = 2 THEN (IF y % 4 = 0 THEN 29 ELSE 28)
            ELSE IF m - 1 \in {4, 6, 9, 11} THEN 30 ELSE 31)

to_datetime(k) ==
    (k[1] - 2000) * 365 + ((k[1] - 2000 + 3) \div 4) + DaysBeforeMonth(k[1], k[2]) + k[3]

\* float(text) of a string of decimal digits
RECURSIVE ParseDigits(_, _)
ParseDigits(t, n) == IF n = 0 THEN 0 ELSE 10 * ParseDigits(t, n - 1) + t[n]

ParseFloat(t) == F(ParseDigits(t, Len(t)))

ColumnNames ==
    [c \in {"1. open", "2. high", "3. low", "4. close", "5. volume"} |->
        CASE c = "1. open" -> "open"
          [] c = "2. high" -> "high"
          [] c = "3. low" -> "low"
          [] c = "4. close" -> "close"
          [] c = "5. volume" -> "volume"]

\* DataFrame.from_dict(time_series, orient="index"), the index parsed, the
\* columns renamed and cast to float: one row per entry, in the dict's order;
\* an empty dict gives a table without columns
RowsOf(ts) ==
    [i \in 1..Len(ts) |->
        [ts |-> to_datetime(ts[i][1]),
         vals |-> [c \in {ColumnNames[r] : r \in DOMAIN ts[i][2]} |->
                     ParseFloat(ts[i][2][CHOOSE r \in DOMAIN ts[i][2] : ColumnNames[r] = c])]]]

\* DataFrame.sort_index(): ascending by timestamp
RECURSIVE SortRows(_)
SortRows(rows) ==
    IF Len(rows) <= 1 THEN rows
    ELSE LET rest == SortRows(SubSeq(rows, 1, Len(rows) - 1))
             r == rows[Len(rows)]
             before == SelectSeq(rest, LAMBDA x : x.ts <= r.ts)
             after == SelectSeq(rest, LAMBDA x : x.ts > r.ts)
         IN  before \o <<r>> \o after

FrameOfRows(rows) ==
    [index |-> [i \in 1..Len(rows) |-> rows[i].ts],
     cols  |-> IF rows = <<>> THEN <<>>
               ELSE [c \in DOMAIN rows[1].vals |->
                        [i \in 1..Len(rows) |-> rows[i].vals[c]]]]

time_series_keys ==
    [i \in Intervals |->
        CASE i = "daily" -> "Time Series (Daily)"
          [] i = "weekly" -> "Weekly Time Series"
          [] i = "monthly" -> "Monthly Time Series"]

Raise(type, msg) == [raised |-> TRUE, exc |-> [type |-> type, msg |-> msg], df |-> NoFrame]

Return(df) == [raised |-> FALSE, exc |-> NoExc, df |-> df]

\* get_stock_data with the two API checks in the other order
get_stock_data_note_first(sym, intv, reply) ==
    IF reply.kind = "failed" THEN Raise(reply.error.type, reply.error.msg)
    ELSE IF "Note" \in DOMAIN reply.body
         THEN Raise("ValueError", "API Limit: " \o reply.body["Note"])
    ELSE IF "Error Message" \in DOMAIN reply.body
         THEN Raise("ValueError", "API Error: " \o reply.body["Error Message"])
    ELSE IF time_series_keys[intv] \notin DOMAIN reply.body
         THEN Raise("ValueError", "Unexpected API response format for " \o sym)
    ELSE Return(FrameOfRows(SortRows(RowsOf(reply.body[time_series_keys[intv]]))))

\* the result of get_stock_data(symbol, interval) when the request is
\* answered with reply: an exception raised, or the table returned
get_stock_data(sym, intv, reply) ==
    IF reply.kind = "failed" THEN Raise(reply.error.type, reply.error.msg)
    ELSE IF "Error Message" \in DOMAIN reply.body
         THEN Raise("ValueError", "API Error: " \o reply.body["Error Message"])
    ELSE IF "Note" \in DOMAIN reply.body
         THEN Raise("ValueError", "API Limit: " \o reply.body["Note"])
    ELSE IF time_series_keys[intv] \notin DOMAIN reply.body
         THEN Raise("ValueError", "Unexpected API response format for " \o sym)
    ELSE Return(FrameOfRows(SortRows(RowsOf(reply.body[time_series_keys[intv]]))))

(***************************************************************************)
(* get_financial_ratios                                                    *)
(***************************************************************************)
\* the OVERVIEW objects: the fields of a company, or an object without them
\* (the API's answer when it has no overview to give)
OverviewBodies ==
    {<<>>,
     [PERatio |-> "28.5", EPS |-> "6.1", ReturnOnEquityTTM |-> "1.5",
      MarketCapitalization |-> "2900000000000", DividendYield |-> "0.005",
      ProfitMargin |-> "0.25", 52WeekHigh |-> "199.6", 52WeekLow |-> "124.2"]}

OverviewReplies ==
    {[kind |-> "failed", error |-> f, body |-> <<>>] : f \in NetworkFailures}
    \cup {[kind |-> "json", error |-> NoExc, body |-> b] : b \in OverviewBodies}

get_financial_ratios(sym, reply) ==
    IF reply.kind = "failed"
    THEN [raised |-> TRUE, exc |-> reply.error, ratios |-> <<>>]
    ELSE [raised |-> FALSE, exc |-> NoExc,
          ratios |->
            [r \in {"P/E Ratio", "EPS", "ROE", "Market Cap", "Dividend Yield",
                    "Profit Margin", "52 Week High", "52 Week Low"} |->
                CASE r = "P/E Ratio" -> Get(reply.body, "PERatio", "N/A")
                  [] r = "EPS" -> Get(reply.body, "EPS", "N/A")
                  [] r = "ROE" -> Get(reply.body, "ReturnOnEquityTTM", "N/A")
                  [] r = "Market Cap" ->
                        "$" \o Get(reply.body, "MarketCapitalization", "N/A")
                  [] r = "Dividend Yield" ->
                        Get(reply.body, "DividendYield", "N/A") \o "%"
                  [] r = "Profit Margin" -> Get(reply.body, "ProfitMargin", "N/A")
                  [] r = "52 Week High" -> Get(reply.body, "52WeekHigh", "N/A")
                  [] r = "52 Week Low" -> Get(reply.body, "52WeekLow", "N/A")]]

(***************************************************************************)
(* Spec: one pass of the script after another.                             *)
(***************************************************************************)
\* the sidebar widgets hold a selection and the script starts to run
StartOfPass ==
    /\ pc = "fetch_prices"
    /\ symbol \in NASDAQ_SYMBOLS
    /\ interval \in Intervals
    /\ selected_indicator \in INDICATORS
    /\ response = [kind |-> "none"]
    /\ data = NoFrame
    /\ fetched = NoFrame
    /\ ratios = <<>>
    /\ calls = <<>>
    /\ exc = NoExc
    /\ shown = <<>>
    /\ rendered = {}
    /\ window = RsiWindow
    /\ out = <<>>

Init == StartOfPass

\* try: data = get_stock_data(symbol, interval)
GetStockData ==
    /\ pc = "fetch_prices"
    /\ \E reply \in PriceReplies :
          LET r == get_stock_data(symbol, interval, reply)
          IN  /\ response' = reply
              /\ calls' = Append(calls, [fn |-> "get_stock_data", raised |-> r.raised])
              /\ exc' = r.exc
              /\ data' = r.df
              /\ fetched' = r.df
              /\ pc' = IF r.raised THEN "except" ELSE "fetch_ratios"
    /\ UNCHANGED <<symbol, interval, selected_indicator, ratios, shown, rendered,
                   window, out>>

\* try: ratios = get_financial_ratios(symbol)
GetFinancialRatios ==
    /\ pc = "fetch_ratios"
    /\ \E reply \in OverviewReplies :
          LET r == get_financial_ratios(symbol, reply)
          IN  /\ calls' = Append(calls, [fn |-> "get_financial_ratios", raised |-> r.raised])
              /\ exc' = r.exc
              /\ ratios' = r.ratios
              /\ pc' = IF r.raised THEN "except" ELSE "price_chart"
    /\ UNCHANGED <<symbol, interval, selected_indicator, response, data, fetched,
                   shown, rendered, window, out>>

InfoText ==
    "Common fixes: Check API key, try a different stock, or wait 1 minute if you hit rate limits"

\* st.error(...) without the exception's text
ErrorTextGeneric(e) == "Error loading data"

\* the text of st.error in the except block
ErrorText(e) == "Error loading data: " \o e.msg

\* an except block without st.stop(): the script runs on
ExceptBlockNoStop ==
    /\ pc = "except"
    /\ shown' = shown \o <<[kind |-> "error", text |-> ErrorText(exc)],
                           [kind |-> "info", text |-> InfoText]>>
    /\ pc' = "price_chart"
    /\ UNCHANGED <<symbol, interval, selected_indicator, response, data, fetched,
                   ratios, calls, exc, rendered, window, out>>

\* except Exception as e: st.error, st.info, st.stop()
ExceptBlock ==
    /\ pc = "except"
    /\ shown' = shown \o <<[kind |-> "error", text |-> ErrorText(exc)],
                           [kind |-> "info", text |-> InfoText]>>
    /\ pc' = "stopped"
    /\ UNCHANGED <<symbol, interval, selected_indicator, response, data, fetched,
                   ratios, calls, exc, rendered, window, out>>

\* the candlestick chart: data['open'] of a table without columns (an empty
\* time series) raises KeyError outside the try block and ends the pass
PriceChart ==
    /\ pc = "price_chart"
    /\ IF PriceColumns \subseteq DOMAIN data.cols
       THEN /\ rendered' = rendered \cup {"price_chart"}
            /\ pc' = "indicator"
            /\ exc' = exc
       ELSE /\ rendered' = rendered
            /\ pc' = "crashed"
            /\ exc' = [type |-> "KeyError", msg |-> "'open'"]
    /\ UNCHANGED <<symbol, interval, selected_indicator, response, data, fetched,
                   ratios, calls, shown, window, out>>

\* data['RSI'] = calculate_rsi(data)
RsiBranchData(df, w) == SetColumn(df, "RSI", calculate_rsi(df, w))

MacdBranchData(df) == df

\* a VWAP branch that keeps its result in the table
VwapBranchDataStored(df) == SetColumn(df, "VWAP", calculate_vwap(df))

VwapBranchData(df) == df

RsiBranch ==
    /\ pc = "indicator"
    /\ selected_indicator = "RSI (14-day)"
    /\ data' = RsiBranchData(data, window)
    /\ out' = [RSI |-> calculate_rsi(data, window)]
    /\ rendered' = rendered \cup {"indicator_chart"}
    /\ pc' = "ratio_tiles"
    /\ UNCHANGED <<symbol, interval, selected_indicator, response, fetched,
                   ratios, calls, exc, shown, window>>

MacdBranch ==
    /\ pc = "indicator"
    /\ selected_indicator = "MACD"
    /\ data' = MacdBranchData(data)
    /\ out' = calculate_macd(data, MacdFast, MacdSlow, MacdSignal)
    /\ rendered' = rendered \cup {"indicator_chart"}
    /\ pc' = "ratio_tiles"
    /\ UNCHANGED <<symbol, interval, selected_indicator, response, fetched,
                   ratios, calls, exc, shown, window>>

VwapBranch ==
    /\ pc = "indicator"
    /\ selected_indicator = "VWAP"
    /\ data' = VwapBranchData(data)
    /\ out' = [vwap |-> calculate_vwap(data)]
    /\ rendered' = rendered \cup {"indicator_chart"}
    /\ pc' = "ratio_tiles"
    /\ UNCHANGED <<symbol, interval, selected_indicator, response, fetched,
                   ratios, calls, exc, shown, window>>

BollBranch ==
    /\ pc = "indicator"
    /\ selected_indicator = "Bollinger Bands"
    /\ data' = BollingerBranch(data)
    /\ rendered' = rendered \cup {"indicator_chart"}
    /\ pc' = "ratio_tiles"
    /\ UNCHANGED <<symbol, interval, selected_indicator, response, fetched,
                   ratios, calls, exc, shown, window, out>>

\* the eight st.metric tiles
RatioTiles ==
    /\ pc = "ratio_tiles"
    /\ rendered' = rendered \cup {"ratio_tiles"}
    /\ pc' = "done"
    /\ UNCHANGED <<symbol, interval, selected_indicator, response, data, fetched,
                   ratios, calls, exc, shown, window, out>>

\* a widget changes and Streamlit runs the script again from the top
Rerun ==
    /\ pc \in {"done", "stopped", "crashed"}
    /\ pc' = "fetch_prices"
    /\ symbol' \in NASDAQ_SYMBOLS
    /\ interval' \in Intervals
    /\ selected_indicator' \in INDICATORS
    /\ response' = [kind |-> "none"]
    /\ data' = NoFrame
    /\ fetched' = NoFrame
    /\ ratios' = <<>>
    /\ calls' = <<>>
    /\ exc' = NoExc
    /\ shown' = <<>>
    /\ rendered' = {}
    /\ window' = RsiWindow
    /\ out' = <<>>

Next ==
    \/ GetStockData
    \/ GetFinancialRatios
    \/ ExceptBlock
    \/ PriceChart
    \/ RsiBranch
    \/ MacdBranch
    \/ VwapBranch
    \/ BollBranch
    \/ RatioTiles
    \/ Rerun

Spec == Init /\ [][Next]_vars

AfterIndicator == pc \in {"ratio_tiles", "done"}

\* C7 (as stated): after the indicator of a pass is computed, the table data
\* has the columns and the values get_stock_data returned.
C7_AsStated == AfterIndicator => data = fetched

\* the columns the branch of an indicator stores in data
StoredColumns(ind) ==
    CASE ind = "RSI (14-day)" -> {"RSI"}
      [] ind = "Bollinger Bands" -> {"MA20", "Upper", "Lower"}
      [] OTHER -> {}

\* C7 (amended): computing the indicator changes neither the index nor the
\* values of the columns open, high, low, close, volume; MACD and VWAP leave
\* data's columns as fetched, the RSI branch adds the column RSI and the
\* Bollinger Bands branch adds MA20, Upper and Lower.
C7_PricesKept ==
    AfterIndicator =>
        /\ data.index = fetched.index
        /\ \A c \in PriceColumns : data.cols[c] = fetched.cols[c]
        /\ DOMAIN fetched.cols = PriceColumns
        /\ DOMAIN data.cols = PriceColumns \cup StoredColumns(selected_indicator)

\* the RSI branch has run on a table with rows
C7_Witness ==
    /\ AfterIndicator
    /\ selected_indicator = "RSI (14-day)"
    /\ NRows(fetched) >= 2
    /\ "RSI" \in DOMAIN data.cols
    /\ Len(data.cols["RSI"]) = NRows(fetched)

PriceFetchDone == Len(calls) = 1

C8_SeriesKey ==
    IF interval = "daily" THEN "Time Series (Daily)"
    ELSE IF interval = "weekly" THEN "Weekly Time Series"
    ELSE "Monthly Time Series"

PriceFetchRaised(msg) ==
    /\ exc = [type |-> "ValueError", msg |-> msg]
    /\ calls[1].raised
    /\ pc \in {"except", "stopped"}

\* a table came back: one row per entry of the time series, in strictly
\* increasing order of timestamp
PriceFetchReturned ==
    /\ exc = NoExc
    /\ ~calls[1].raised
    /\ pc = "fetch_ratios"
    /\ \A i, j \in 1..NRows(data) : i < j => data.index[i] < data.index[j]

\* the four outcomes of C8, decided on the answer b in the order of the claim
DecidedOn(b) ==
    IF "Error Message" \in DOMAIN b
    THEN PriceFetchRaised("API Error: " \o b["Error Message"])
    ELSE IF "Note" \in DOMAIN b
    THEN PriceFetchRaised("API Limit: " \o b["Note"])
    ELSE IF C8_SeriesKey \notin DOMAIN b
    THEN PriceFetchRaised("Unexpected API response format for " \o symbol)
    ELSE PriceFetchReturned /\ NRows(data) = Len(b[C8_SeriesKey])

PassStopped == pc = "stopped"

\* C9 (as stated): when a fetch fails, the error text on the page is the
\* failure message itself, nothing added.
C9_AsStated == PassStopped => (Len(shown) >= 1 /\ shown[1].text = exc.msg)

\* C9 (amended): when a fetch fails, the error text on the page is
\* "Error loading data: " followed by the failure message unchanged, and it
\* is the only error on the page (a fixed hint follows it as an info box).
C9_Prefixed ==
    PassStopped =>
        /\ Len(shown) = 2
        /\ shown[1] = [kind |-> "error", text |-> "Error loading data: " \o exc.msg]
        /\ shown[2].kind = "info"
        /\ exc # NoExc

\* a rate-limit note reached the page
C9_Witness ==
    /\ PassStopped
    /\ response.kind = "json"
    /\ "Note" \in DOMAIN response.body
    /\ "Error Message" \notin DOMAIN response.body
    /\ shown[1].text = "Error loading data: API Limit: " \o response.body["Note"]

IsPrefix(a, b) == Len(a) <= Len(b) /\ SubSeq(b, 1, Len(a)) = a

CallNames == [i \in 1..Len(calls) |-> calls[i].fn]

SomeCallRaised == \E i \in 1..Len(calls) : calls[i].raised

\* C10: in a pass the price fetch comes before the ratio fetch and each is
\* called at most once; when either raises, no fetch is called after it, an
\* error is shown, the pass stops and nothing is rendered; a chart or a tile
\* is on the page only in a pass where both fetches succeeded.
C10_Pass ==
    /\ IsPrefix(CallNames, <<"get_stock_data", "get_financial_ratios">>)
    /\ \A i \in 1..Len(calls) : calls[i].raised => i = Len(calls)
    /\ SomeCallRaised =>
          /\ pc \in {"except", "stopped"}
          /\ rendered = {}
          /\ pc = "stopped" => (Len(shown) >= 1 /\ shown[1].kind = "error")
    /\ rendered # {} =>
          /\ Len(calls) = 2
          /\ ~SomeCallRaised
          /\ shown = <<>>

\* a pass stopped by a failed ratio fetch after a successful price fetch
C10_Witness ==
    /\ pc = "stopped"
    /\ CallNames = <<"get_stock_data", "get_financial_ratios">>
    /\ ~calls[1].raised /\ calls[2].raised
    /\ NRows(fetched) >= 1
    /\ rendered = {}

(***************************************************************************)
(* SpecEngine: each of the four indicator calculations applied to a table  *)
(* of any length from 0.                                                   *)
(***************************************************************************)
InitEngine ==
    /\ NoPass
    /\ pc = "ready"
    /\ data \in {DatedFrame(b) : b \in SeqsUpTo(Bars, MaxEngineLen)}
    /\ window \in {1, RsiWindow}
    /\ out = <<>>

NextEngine ==
    \/ CallRSI
    \/ CallMACD
    \/ CallVWAP
    \/ CallBollinger

SpecEngine == InitEngine /\ [][NextEngine]_vars

\* C6: for every input table, the empty one included, the RSI output, the two
\* MACD outputs, the VWAP output and the three Bollinger columns have one
\* value per row of the input, at the input's positions.
C6_Lengths ==
    pc = "done" =>
        /\ \/ DOMAIN out \in {{"RSI"}, {"macd", "signal"}, {"vwap"}}
           \/ {"MA20", "Upper", "Lower"} \subseteq DOMAIN data.cols
        /\ \A k \in DOMAIN out : DOMAIN out[k] = 1..NRows(data)
        /\ \A c \in DOMAIN data.cols : DOMAIN data.cols[c] = DOMAIN data.index

\* calculate_macd has run on a table with rows
C6_Witness ==
    /\ pc = "done"
    /\ NRows(data) = MaxEngineLen
    /\ DOMAIN out = {"macd", "signal"}
    /\ Len(out.signal) = MaxEngineLen

====
